---- MODULE Spec2Model ----
(***************************************************************************)
(* Algebra Visualizer: the quadratic solver, the account system            *)
(* (AuthSystem over data/user_progress.db and the UI session), the         *)
(* DatabaseManager (data/algebra_visualizer.db), the gamification engine   *)
(* and the voice command dispatcher, as state machines.                    *)
(*                                                                         *)
(* Text values are tuples of one-character strings, so that the validators *)
(* (length tests, character classes, the e-mail pattern) are computed on   *)
(* the characters as the code computes them.                               *)
(***************************************************************************)
EXTENDS Integers, Sequences, FiniteSets, TLC

VARIABLES
    qin,        \* the coefficients (a, b, c) handed to the quadratic routines
    qout,       \* what MathEngine.solve_quadratic returned for qin
    cout,       \* what utils.calculators.calculate_roots returned for qin
    proof,      \* the Identity Prover: the identity and values chosen, and its verdict
    users,      \* table users of data/user_progress.db (AuthSystem)
    progress,   \* table user_progress of data/user_progress.db (GamificationEngine)
    mastery,    \* table concept_mastery of data/user_progress.db (GamificationEngine)
    achievements, \* table achievements of data/user_progress.db (GamificationEngine)
    attemptDays, \* history: the (user, day) pairs on which GamificationEngine recorded an attempt
    session,    \* st.session_state: a function from the keys present to their values
    now,        \* the clock behind CURRENT_TIMESTAMP and time.time()
    dmUsers,    \* table users of data/algebra_visualizer.db (DatabaseManager)
    dmProgress, \* table user_progress of data/algebra_visualizer.db
    dmMastery,  \* table concept_mastery of data/algebra_visualizer.db
    dmSessions, \* table study_sessions of data/algebra_visualizer.db
    dmHistory,  \* table problem_history of data/algebra_visualizer.db
    openConns,  \* connections opened by an operation and not closed by it
    voice,      \* the fields of the VoiceCommandSystem object
    listeners,  \* the number of _listen_loop threads that have not returned
    verified,   \* history: the id login_user verified last (0: none yet, -1: logout_user came after)
    last        \* history: the last call, its arguments and what it returned

quadVars  == <<qin, qout, cout, proof>>
authVars  == <<users, session>>
gameVars  == <<progress, mastery, achievements, attemptDays>>
voiceVars == <<voice, listeners>>
dmVars    == <<dmUsers, dmProgress, dmMastery, dmSessions, dmHistory>>
vars == <<qin, qout, cout, proof, users, progress, mastery, achievements, attemptDays,
          session, now, dmUsers, dmProgress, dmMastery, dmSessions, dmHistory, openConns,
          voice, listeners,
          verified, last>>

----------------------------------------------------------------------------
(* Bounds of the model *)

CoefBound == 3
MaxTime == 2
MaxLeaks == 2

----------------------------------------------------------------------------
(* Text helpers *)

Upper == {"A","B","C","D","E","F","G","H","I","J","K","L","M",
          "N","O","P","Q","R","S","T","U","V","W","X","Y","Z"}
Lower == {"a","b","c","d","e","f","g","h","i","j","k","l","m",
          "n","o","p","q","r","s","t","u","v","w","x","y","z"}
Digit == {"0","1","2","3","4","5","6","7","8","9"}

Range(s) == {s[i] : i \in DOMAIN s}

----------------------------------------------------------------------------
(* MathEngine.solve_quadratic and utils.calculators.calculate_roots *)

None == [type |-> "None"]

\* (num + sgn * sqrt(rad)) / den, kept symbolic: the square root of an integer
\* is not an integer in general
Surd(num, sgn, rad, den) == [num |-> num, sgn |-> sgn, rad |-> rad, den |-> den]

calculate_discriminant(a, b, c) == b * b - 4 * a * c

solve_quadratic_ge(a, b, c) ==
    LET discriminant == b * b - 4 * a * c IN
    IF discriminant >= 0 THEN
        [type |-> "real",
         roots |-> << Surd(-b, 1, discriminant, 2 * a), Surd(-b, -1, discriminant, 2 * a) >>,
         discriminant |-> discriminant]
    ELSE
        [type |-> "complex",
         roots |-> << Surd(-b, 0, 0, 2 * a), Surd(0, 1, -discriminant, 2 * a) >>,
         discriminant |-> discriminant]

solve_quadratic(a, b, c) ==
    LET discriminant == b * b - 4 * a * c IN
    IF discriminant > 0 THEN
        [type |-> "real",
         roots |-> << Surd(-b, 1, discriminant, 2 * a), Surd(-b, -1, discriminant, 2 * a) >>,
         discriminant |-> discriminant]
    ELSE IF discriminant = 0 THEN
        [type |-> "double",
         roots |-> << Surd(-b, 0, 0, 2 * a) >>,
         discriminant |-> discriminant]
    ELSE
        [type |-> "complex",
         roots |-> << Surd(-b, 0, 0, 2 * a), Surd(0, 1, -discriminant, 2 * a) >>,
         discriminant |-> discriminant]

calculate_roots(a, b, c) ==
    LET discriminant == calculate_discriminant(a, b, c) IN
    IF discriminant > 0 THEN
        [root1 |-> Surd(-b, 1, discriminant, 2 * a),
         root2 |-> Surd(-b, -1, discriminant, 2 * a),
         type |-> "real_distinct"]
    ELSE IF discriminant = 0 THEN
        [root1 |-> Surd(-b, 0, 0, 2 * a),
         root2 |-> Surd(-b, 0, 0, 2 * a),
         type |-> "real_equal"]
    ELSE
        [root1 |-> Surd(-b, 0, 0, 2 * a),
         root2 |-> Surd(0, 1, -discriminant, 2 * a),
         type |-> "complex"]

Coefs == (-CoefBound)..CoefBound

SolveQuadratic ==
    /\ qout.type = "None"
    /\ qout' = solve_quadratic(qin[1], qin[2], qin[3])
    /\ UNCHANGED <<qin, cout, proof, authVars, gameVars, now, dmVars, openConns, voiceVars,
                   verified, last>>

CalculateRoots ==
    /\ cout.type = "None"
    /\ cout' = calculate_roots(qin[1], qin[2], qin[3])
    /\ UNCHANGED <<qin, qout, proof, authVars, gameVars, now, dmVars, openConns, voiceVars,
                   verified, last>>

----------------------------------------------------------------------------
(* Inputs: the texts typed into the forms *)

Txt_ali     == <<"a","l","i">>
Txt_al      == <<"a","l">>
Txt_zed     == <<"z","e","d">>
Mail_a      == <<"a","@","c",".","d","e">>
Mail_b      == <<"b","@","c",".","d","e">>
Mail_noAt   == <<"a","c",".","d","e">>
Mail_tld1   == <<"a","@","c",".","d">>
Pw_one      == <<"A","b","c","d","e","f","g","1">>
Pw_two      == <<"X","y","z","u","v","w","2","2">>
Pw_short    == <<"A","b","c","d","e","f","1">>
Pw_noUpper  == <<"a","b","c","d","e","f","g","1">>
Pw_noLower  == <<"A","B","C","D","E","F","G","1">>
Pw_noDigit  == <<"A","b","c","d","e","f","g","h">>

\* a username may be any text of three characters or more: also an e-mail address
GoodUsernames == {Txt_ali, Mail_b}
GoodEmails    == {Mail_a, Mail_b}
GoodPasswords == {Pw_one}
Salts         == {"s1", "s2"}

\* every valid form, and every form that is wrong in one field
SignupForms == {<<u, e, p, p>> : u \in GoodUsernames, e \in GoodEmails, p \in GoodPasswords}

RegisterInputs ==
    SignupForms
    \cup {<<Txt_ali, Mail_a, Pw_one, Pw_two>>}
    \cup ({<<>>, Txt_al} \X {Mail_a} \X {Pw_one} \X {Pw_one})
    \cup ({Txt_ali} \X {<<>>, Mail_noAt, Mail_tld1} \X {Pw_one} \X {Pw_one})
    \cup {<<Txt_ali, Mail_a, p, p>> : p \in {<<>>, Pw_short, Pw_noUpper, Pw_noLower, Pw_noDigit}}
    \cup {<<Txt_al, Mail_noAt, Pw_short, Pw_one>>}

LoginNames     == {Txt_ali, Mail_a, Mail_b, Txt_zed}
LoginPasswords == {Pw_one, Pw_two}

----------------------------------------------------------------------------
(* AuthSystem: validators and password hashing *)

\* pbkdf2_hmac('sha256', password, salt, 100000).hex(): a function of the password
\* and the salt that is taken to have no collisions
_hash_password(password, salt) == <<password, salt>>

_verify_password(password, password_hash, salt) ==
    _hash_password(password, salt) = password_hash

\* re.match(r'^[a-zA-Z0-9._%+-]+@[a-zA-Z0-9.-]+\.[a-zA-Z]{2,}$', email):
\* '$' also matches before one trailing newline
EmailLocal == Upper \cup Lower \cup Digit \cup {".", "_", "%", "+", "-"}
EmailDomain == Upper \cup Lower \cup Digit \cup {".", "-"}
EmailTld == Upper \cup Lower

_validate_email(email) ==
    LET n0 == Len(email)
        ends == {n0} \cup (IF n0 > 0 /\ email[n0] = "\n" THEN {n0 - 1} ELSE {})
    IN \E n \in ends : \E i \in 1..n : \E j \in 1..n :
          /\ email[i] = "@"
          /\ email[j] = "."
          /\ i >= 2
          /\ j >= i + 2
          /\ n - j >= 2
          /\ \A k \in 1..(i - 1) : email[k] \in EmailLocal
          /\ \A k \in (i + 1)..(j - 1) : email[k] \in EmailDomain
          /\ \A k \in (j + 1)..n : email[k] \in EmailTld

_validate_password_nodigit(password) ==
    IF Len(password) < 8 THEN
        [ok |-> FALSE, msg |-> "Password must be at least 8 characters long"]
    ELSE IF Range(password) \cap Upper = {} THEN
        [ok |-> FALSE, msg |-> "Password must contain at least one uppercase letter"]
    ELSE IF Range(password) \cap Lower = {} THEN
        [ok |-> FALSE, msg |-> "Password must contain at least one lowercase letter"]
    ELSE
        [ok |-> TRUE, msg |-> "Password is strong"]

_validate_password(password) ==
    IF Len(password) < 8 THEN
        [ok |-> FALSE, msg |-> "Password must be at least 8 characters long"]
    ELSE IF Range(password) \cap Upper = {} THEN
        [ok |-> FALSE, msg |-> "Password must contain at least one uppercase letter"]
    ELSE IF Range(password) \cap Lower = {} THEN
        [ok |-> FALSE, msg |-> "Password must contain at least one lowercase letter"]
    ELSE IF Range(password) \cap Digit = {} THEN
        [ok |-> FALSE, msg |-> "Password must contain at least one digit"]
    ELSE
        [ok |-> TRUE, msg |-> "Password is strong"]

----------------------------------------------------------------------------
(* SQLite tables and connections *)

\* INTEGER PRIMARY KEY AUTOINCREMENT: one more than the largest id ever used;
\* no code deletes a users row, so that is the number of rows plus one
lastrowid(table) == Len(table) + 1

\* str(user_id): the TEXT key of user_progress, concept_mastery and achievements
user_id_str(user_id) == [text |-> user_id]

\* a write through a connection while another connection holds an uncommitted
\* write on the same file: sqlite3 waits for its timeout and raises
\* OperationalError('database is locked')
sqlite_busy(writer) == writer # "none"

ProgressRow(key, day) ==
    [user_id |-> key, total_points |-> 0, current_level |-> 1,
     problems_attempted |-> 0, problems_solved |-> 0, streak_days |-> 0,
     last_active |-> day]

HasProgress(P, key) == \E r \in P : r.user_id = key

\* GamificationEngine._init_user_progress; writer names the connection that holds
\* an uncommitted write when the INSERT OR IGNORE runs ("none": no connection does)
_init_user_progress(P, user_id, day, writer) ==
    LET user_id_s == user_id_str(user_id) IN
    IF sqlite_busy(writer) THEN
        [progress |-> P, ret |-> FALSE]
    ELSE IF HasProgress(P, user_id_s) THEN
        [progress |-> P, ret |-> TRUE]
    ELSE
        [progress |-> P \cup {ProgressRow(user_id_s, day)}, ret |-> TRUE]

----------------------------------------------------------------------------
(* AuthSystem.register_user *)

Faults == {"none", "select", "insert", "commit"}

UserRow(id, username, email, password_hash, salt) ==
    [id |-> id, username |-> username, email |-> email,
     password_hash |-> password_hash, salt |-> salt,
     role |-> "student", last_login |-> -1]

RegRet(ok, msg, U, P, open) ==
    [ok |-> ok, msg |-> msg, users |-> U, progress |-> P, open |-> open]

register_user_exists_email(U, username, email) ==
    \E r \in Range(U) : r.email = email

register_user_exists(U, username, email) ==
    \E r \in Range(U) : r.username = username \/ r.email = email

\* fault names the statement of this call that raises sqlite3.Error, if any
register_user(U, P, username, email, password, confirm_password, salt, day, fault) ==
    IF username = <<>> \/ email = <<>> \/ password = <<>> THEN
        RegRet(FALSE, "All fields are required", U, P, 0)
    ELSE IF password # confirm_password THEN
        RegRet(FALSE, "Passwords do not match", U, P, 0)
    ELSE IF ~_validate_email(email) THEN
        RegRet(FALSE, "Invalid email format", U, P, 0)
    ELSE IF ~_validate_password(password).ok THEN
        RegRet(FALSE, _validate_password(password).msg, U, P, 0)
    ELSE IF Len(username) < 3 THEN
        RegRet(FALSE, "Username must be at least 3 characters long", U, P, 0)
    \* conn = sqlite3.connect(...): one connection open from here on
    ELSE IF fault = "select" THEN
        \* line 93 is outside the try: the error leaves the call, conn stays open
        RegRet(FALSE, "raised sqlite3.Error", U, P, 1)
    ELSE IF register_user_exists(U, username, email) THEN
        RegRet(FALSE, "Username or email already exists", U, P, 0)
    ELSE IF fault = "insert" THEN
        RegRet(FALSE, "Registration failed", U, P, 0)
    ELSE
        LET user_id == lastrowid(U)
            row == UserRow(user_id, username, email, _hash_password(password, salt), salt)
            \* conn holds the uncommitted INSERT while game_engine writes
            \* through a connection of its own
            init == _init_user_progress(P, user_id, day, "conn")
        IN IF fault = "commit" THEN
               \* conn.close() without a commit rolls the INSERT back
               RegRet(FALSE, "Registration failed", U, init.progress, 0)
           ELSE
               RegRet(TRUE, "Registration successful! You can now login.",
                      Append(U, row), init.progress, 0)

----------------------------------------------------------------------------
(* st.session_state *)

AuthKeys == {"user_id", "username", "role", "is_authenticated"}

EmptySession == [k \in {} |-> TRUE]

SessSet(S, k, v) == [x \in DOMAIN S \cup {k} |-> IF x = k THEN v ELSE S[x]]

SessDel(S, K) == [x \in DOMAIN S \ K |-> S[x]]

\* st.session_state.get('is_authenticated', False)
SessAuthenticated(S) == "is_authenticated" \in DOMAIN S /\ S["is_authenticated"]

\* f"user_{int(time.time())}": a text, never equal to the integer id of a users
\* row; written here as a number below zero
GuestId(t) == 0 - (t + 1)

----------------------------------------------------------------------------
(* AuthSystem.login_user, logout_user, get_current_user *)

NoRow == UserRow(0, <<>>, <<>>, <<>>, "")

\* SELECT ... FROM users WHERE username = ? OR email = ?, with the one argument
\* bound to both: the rows fetchone() may return (the query has no ORDER BY)
login_user_select(U, username) ==
    {r \in Range(U) : r.username = username \/ r.email = username}

LoginRet(ok, msg, U, S) == [ok |-> ok, msg |-> msg, users |-> U, session |-> S]

login_user_stamp(U, S, username, password, user_data, t) ==
    IF user_data = NoRow THEN
        LoginRet(FALSE, "Invalid username or password", U, S)
    ELSE
        LET U2 == [i \in DOMAIN U |-> IF U[i].id = user_data.id
                                      THEN [U[i] EXCEPT !.last_login = t] ELSE U[i]]
        IN IF ~_verify_password(password, user_data.password_hash, user_data.salt) THEN
               LoginRet(FALSE, "Invalid username or password", U2, S)
           ELSE
               LoginRet(TRUE, "Login successful!", U2,
                   SessSet(SessSet(SessSet(SessSet(S,
                       "user_id", user_data.id),
                       "username", user_data.username),
                       "role", user_data.role),
                       "is_authenticated", TRUE))

\* user_data is what fetchone() returned: a row of login_user_select, or NoRow
login_user(U, S, username, password, user_data, t) ==
    IF user_data = NoRow THEN
        LoginRet(FALSE, "Invalid username or password", U, S)
    ELSE IF ~_verify_password(password, user_data.password_hash, user_data.salt) THEN
        LoginRet(FALSE, "Invalid username or password", U, S)
    ELSE
        LoginRet(TRUE, "Login successful!",
            [i \in DOMAIN U |-> IF U[i].id = user_data.id
                                THEN [U[i] EXCEPT !.last_login = t] ELSE U[i]],
            SessSet(SessSet(SessSet(SessSet(S,
                "user_id", user_data.id),
                "username", user_data.username),
                "role", user_data.role),
                "is_authenticated", TRUE))

logout_user_keep_id(S) == SessDel(S, AuthKeys \ {"user_id"})

logout_user(S) == SessDel(S, AuthKeys)

\* the id of the row get_current_user returns: 0 for None, -1 when reading
\* st.session_state.user_id raises because the key is absent
get_current_user(U, S) ==
    IF ~SessAuthenticated(S) THEN 0
    ELSE IF "user_id" \notin DOMAIN S THEN -1
    ELSE LET found == {r \in Range(U) : r.id = S["user_id"]}
         IN IF found = {} THEN 0 ELSE (CHOOSE r \in found : TRUE).id

----------------------------------------------------------------------------
(* The application's own writes to the session (app.py, auth.py) *)

\* AlgebraVisualizerApp.setup_session_state: the keys the modelled code reads
\* (theme, learning_mode and random_problem are set the same way and read nowhere here)
setup_session_state(S, t) ==
    LET S1 == IF "current_section" \in DOMAIN S THEN S ELSE SessSet(S, "current_section", "Dashboard")
        S2 == IF "user_id" \in DOMAIN S1 THEN S1 ELSE SessSet(S1, "user_id", GuestId(t))
        S3 == IF "is_authenticated" \in DOMAIN S2 THEN S2 ELSE SessSet(S2, "is_authenticated", FALSE)
        S4 == IF "show_auth" \in DOMAIN S3 THEN S3 ELSE SessSet(S3, "show_auth", FALSE)
    IN S4

initialize_auth(S) ==
    IF "is_authenticated" \in DOMAIN S THEN S ELSE SessSet(S, "is_authenticated", FALSE)

\* AlgebraVisualizerApp.run up to render_sidebar: a visitor who is not
\* authenticated and has not asked for the login page continues as a guest
run_check_authentication(S) ==
    IF ~S["is_authenticated"] /\ ~S["show_auth"]
    THEN SessSet(S, "is_authenticated", TRUE)
    ELSE S

----------------------------------------------------------------------------
(* The record of the last call *)

Call(op, username, email, password, confirm, ok, msg, ret) ==
    [op |-> op, username |-> username, email |-> email, password |-> password,
     confirm |-> confirm, ok |-> ok, msg |-> msg, ret |-> ret]

NoCall == Call("none", <<>>, <<>>, <<>>, <<>>, FALSE, "", 0)

----------------------------------------------------------------------------
(* Accounts and session: the actions *)

Tick ==
    /\ now < MaxTime
    /\ now' = now + 1
    /\ UNCHANGED <<quadVars, authVars, gameVars, dmVars, openConns, voiceVars, verified, last>>

RegisterUser(forms, faults) ==
    \E inp \in forms, salt \in Salts, fault \in faults :
        LET r == register_user(users, progress, inp[1], inp[2], inp[3], inp[4], salt, now, fault) IN
        /\ openConns + r.open <= MaxLeaks
        /\ users' = r.users
        /\ progress' = r.progress
        /\ openConns' = openConns + r.open
        /\ last' = Call("register_user", inp[1], inp[2], inp[3], inp[4], r.ok, r.msg,
                        IF r.ok THEN Len(r.users) ELSE 0)
        /\ UNCHANGED <<quadVars, session, mastery, achievements, attemptDays, now, dmVars, voiceVars, verified>>

LoginUser ==
    \E username \in LoginNames, password \in LoginPasswords :
        LET sel == login_user_select(users, username) IN
        \E user_data \in (IF sel = {} THEN {NoRow} ELSE sel) :
            LET r == login_user(users, session, username, password, user_data, now) IN
            /\ users' = r.users
            /\ session' = r.session
            /\ verified' = IF r.ok THEN user_data.id ELSE verified
            /\ last' = Call("login_user", username, <<>>, password, <<>>, r.ok, r.msg,
                            IF r.ok THEN user_data.id ELSE 0)
            /\ UNCHANGED <<quadVars, gameVars, now, dmVars, openConns, voiceVars>>

LogoutUser ==
    /\ session' = logout_user(session)
    /\ verified' = -1
    /\ last' = Call("logout_user", <<>>, <<>>, <<>>, <<>>, TRUE, "", 0)
    /\ UNCHANGED <<quadVars, users, gameVars, now, dmVars, openConns, voiceVars>>

GetCurrentUser ==
    /\ last' = Call("get_current_user", <<>>, <<>>, <<>>, <<>>,
                    get_current_user(users, session) >= 0, "",
                    get_current_user(users, session))
    /\ UNCHANGED <<quadVars, authVars, gameVars, now, dmVars, openConns, voiceVars, verified>>

\* one run of the script up to the sidebar: AlgebraVisualizerApp(), then run()
RunScript ==
    /\ session' = run_check_authentication(initialize_auth(setup_session_state(session, now)))
    /\ last' = Call("run", <<>>, <<>>, <<>>, <<>>, TRUE, "", 0)
    /\ UNCHANGED <<quadVars, users, gameVars, now, dmVars, openConns, voiceVars, verified>>

\* the sidebar's Logout button, shown when get_current_user returns a user
SidebarLogout ==
    /\ "is_authenticated" \in DOMAIN session
    /\ session["is_authenticated"]
    /\ get_current_user(users, session) > 0
    /\ session' = SessSet(logout_user(session), "is_authenticated", FALSE)
    /\ verified' = -1
    /\ last' = Call("sidebar_logout", <<>>, <<>>, <<>>, <<>>, TRUE, "", 0)
    /\ UNCHANGED <<quadVars, users, gameVars, now, dmVars, openConns, voiceVars>>

\* execute_command({'action': 'clear_screen'}): st.session_state.clear()
ClearScreen ==
    /\ session' = SessSet(EmptySession, "voice_command_history", <<>>)
    /\ session' # session
    /\ last' = Call("clear_screen", <<>>, <<>>, <<>>, <<>>, TRUE, "", 0)
    /\ UNCHANGED <<quadVars, users, gameVars, now, dmVars, openConns, voiceVars, verified>>

\* VoiceCommandSystem.__init__
NoVoice == [is_listening |-> FALSE, last_command_time |-> 0]

NoQuad == <<1, 0, 0>>

\* the Identity Prover before a run of the page
NoProof ==
    [identity |-> 0, a_val |-> 0, b_val |-> 0, left_side |-> 0, right_side |-> 0,
     verdict |-> "none"]

Init ==
    /\ qin = NoQuad
    /\ qout = None
    /\ cout = None
    /\ proof = NoProof
    /\ users = <<>>
    /\ progress = {}
    /\ mastery = {}
    /\ achievements = {}
    /\ attemptDays = {}
    /\ session = EmptySession
    /\ now = 0
    /\ dmUsers = <<>>
    /\ dmProgress = {}
    /\ dmMastery = {}
    /\ dmSessions = <<>>
    /\ dmHistory = <<>>
    /\ openConns = 0
    /\ voice = NoVoice
    /\ listeners = 0
    /\ verified = 0
    /\ last = NoCall

Next ==
    \/ RegisterUser(SignupForms, {"none"})
    \/ LoginUser
    \/ LogoutUser
    \/ GetCurrentUser
    \/ RunScript
    \/ SidebarLogout
    \/ ClearScreen

Spec == Init /\ [][Next]_vars

----------------------------------------------------------------------------
(* Claims about accounts and the session, checked under Spec *)

\* the rows a login with this name and password is entitled to: the name is the
\* row's username or e-mail and the password is the one it was registered with
Entitled(U, name, password) ==
    {r \in Range(U) : /\ name \in {r.username, r.email}
                      /\ _verify_password(password, r.password_hash, r.salt)}

SameAuthKeys(S, T) ==
    \A k \in AuthKeys : /\ (k \in DOMAIN S) = (k \in DOMAIN T)
                        /\ k \in DOMAIN S => S[k] = T[k]

SameLastLogin(U, V) ==
    /\ Len(U) = Len(V)
    /\ \A i \in DOMAIN U : U[i].last_login = V[i].last_login

\* C4: every registered user can log in with the username and with the e-mail
\* address, and the password, they registered with, and the session then carries
\* that user's id, whatever other users exist.
C4_RegisteredUserCanLogin ==
    [][ last'.op = "login_user" =>
            \A r \in Entitled(users, last'.username, last'.password) :
                /\ last'.ok
                /\ "user_id" \in DOMAIN session'
                /\ session'["user_id"] = r.id ]_vars

\* C4, the case it fails in: a login by e-mail address while another user's
\* username is that address.
C4_AmbiguousLogin ==
    /\ last.op = "login_user"
    /\ \E r1, r2 \in Range(users) :
          /\ r1.id # r2.id
          /\ r1.username = last.username
          /\ r2.email = last.username

\* C5: a login with an unknown name, or with a password that is not that of the
\* named user, returns (False, 'Invalid username or password'); and every login
\* that fails returns that message and leaves user_id, username, role,
\* is_authenticated and every last_login as they were.
C5_FailedLoginChangesNothing ==
    [][ last'.op = "login_user" =>
            /\ Entitled(users, last'.username, last'.password) = {} => ~last'.ok
            /\ ~last'.ok =>
                  /\ last'.msg = "Invalid username or password"
                  /\ SameAuthKeys(session, session')
                  /\ SameLastLogin(users, users') ]_vars

\* C5, its case: a wrong password for a registered user who has logged in before,
\* in a session that is authenticated.
C5_Witness ==
    /\ last.op = "login_user"
    /\ ~last.ok
    /\ SessAuthenticated(session)
    /\ \E r \in Range(users) :
          /\ r.username = last.username
          /\ r.last_login >= 0
          /\ ~_verify_password(last.password, r.password_hash, r.salt)

\* C8 as stated: from logout_user until the next successful login_user the keys
\* user_id, username, role and is_authenticated are absent from the session.
C8_KeysAbsentUntilLogin ==
    verified = -1 => DOMAIN session \cap AuthKeys = {}

\* C8 as amended: a successful login_user makes get_current_user return the row
\* whose password was verified; logout_user removes the four keys; and from then
\* until the next successful login_user username and role stay absent and
\* get_current_user returns None, whatever the application writes to
\* is_authenticated and user_id in between. get_current_user never returns a user
\* other than the one verified last.
C8_SessionFollowsLogin ==
    /\ [][ (last'.op = "login_user" /\ last'.ok) =>
              /\ get_current_user(users', session') > 0
              /\ \E r \in Entitled(users, last'.username, last'.password) :
                    r.id = get_current_user(users', session') ]_vars
    /\ [][ last'.op = "logout_user" =>
              /\ DOMAIN session' \cap AuthKeys = {}
              /\ get_current_user(users', session') = 0 ]_vars
    /\ [](verified = -1 =>
              /\ get_current_user(users, session) = 0
              /\ DOMAIN session \cap {"username", "role"} = {})
    /\ [](get_current_user(users, session) > 0 =>
              get_current_user(users, session) = verified)

\* C8, its case: after a login and a logout the application has run again, the
\* visitor is a guest, and get_current_user has been called.
C8_Witness ==
    /\ verified = -1
    /\ last.op = "get_current_user"
    /\ last.ret = 0
    /\ SessAuthenticated(session)
    /\ "user_id" \in DOMAIN session

----------------------------------------------------------------------------
(* The quadratic routines on every triple of small integer coefficients *)

NextQuad ==
    \/ SolveQuadratic
    \/ CalculateRoots

InitQuad ==
    /\ qin \in {t \in Coefs \X Coefs \X Coefs : t[1] # 0}
    /\ qout = None
    /\ cout = None
    /\ proof = NoProof
    /\ users = <<>>
    /\ progress = {}
    /\ mastery = {}
    /\ achievements = {}
    /\ attemptDays = {}
    /\ session = EmptySession
    /\ now = 0
    /\ dmUsers = <<>>
    /\ dmProgress = {}
    /\ dmMastery = {}
    /\ dmSessions = <<>>
    /\ dmHistory = <<>>
    /\ openConns = 0
    /\ voice = NoVoice
    /\ listeners = 0
    /\ verified = 0
    /\ last = NoCall

SpecQuad == InitQuad /\ [][NextQuad]_vars

\* r = (num + sgn * s) / den with s * s = rad solves a x^2 + b x + c = 0: the
\* part without s and the part with s both vanish
IsRootOf(r, a, b, c) ==
    /\ r.den # 0
    /\ a * (r.num * r.num + r.sgn * r.sgn * r.rad) + b * r.den * r.num + c * r.den * r.den = 0
    /\ r.sgn * (2 * a * r.num + b * r.den) = 0

\* C1: solve_quadratic returns type 'real' with two roots exactly when
\* b^2 - 4ac > 0, type 'double' with one root exactly when b^2 - 4ac = 0 and type
\* 'complex' exactly when b^2 - 4ac < 0; the real roots it returns solve the
\* equation; calculate_roots names the same three cases real_distinct,
\* real_equal and complex.
C1_RootsByDiscriminant ==
    LET a == qin[1]
        b == qin[2]
        c == qin[3]
        d == b * b - 4 * a * c
    IN /\ qout.type # "None" =>
            /\ (qout.type = "real" /\ Len(qout.roots) = 2) <=> d > 0
            /\ (qout.type = "double" /\ Len(qout.roots) = 1) <=> d = 0
            /\ qout.type = "complex" <=> d < 0
            /\ qout.type \in {"real", "double"} =>
                  \A i \in DOMAIN qout.roots : IsRootOf(qout.roots[i], a, b, c)
            /\ qout.type = "real" => qout.roots[1] # qout.roots[2]
       /\ cout.type # "None" =>
            /\ cout.type = "real_distinct" <=> d > 0
            /\ cout.type = "real_equal" <=> d = 0
            /\ cout.type = "complex" <=> d < 0
       /\ (qout.type # "None" /\ cout.type # "None") =>
            /\ qout.type = "real" <=> cout.type = "real_distinct"
            /\ qout.type = "double" <=> cout.type = "real_equal"
            /\ qout.type = "complex" <=> cout.type = "complex"

\* C1, its case: both routines have answered for an equation with a double root
\* that is not 0.
C1_Witness ==
    /\ qout.type = "double"
    /\ cout.type = "real_equal"
    /\ qin[2] # 0

----------------------------------------------------------------------------
(* GamificationEngine.get_user_data *)

\* get_levels(): points_required of levels 1..5
LevelPoints == <<0, 100, 300, 600, 1000>>

current_level_first(total_points) ==
    LET reached == {level \in DOMAIN LevelPoints : total_points >= LevelPoints[level]}
    IN IF reached = {} THEN 1 ELSE CHOOSE l \in reached : \A k \in reached : l <= k

\* the loop over levels.items(): the last level whose points_required is reached
current_level(total_points) ==
    LET reached == {level \in DOMAIN LevelPoints : total_points >= LevelPoints[level]}
    IN IF reached = {} THEN 1 ELSE CHOOSE l \in reached : \A k \in reached : k <= l

\* the connection of get_user_data has written nothing when _init_user_progress
\* writes through its own
get_user_data(P, user_id, day) ==
    LET init == _init_user_progress(P, user_id, day, "none")
        rows == {r \in init.progress : r.user_id = user_id_str(user_id)}
    IN [progress |-> init.progress,
        found |-> rows # {},
        total_points |-> IF rows = {} THEN 0 ELSE (CHOOSE r \in rows : TRUE).total_points,
        current_level |-> IF rows = {} THEN 0
                          ELSE current_level((CHOOSE r \in rows : TRUE).total_points)]

\* render_progress_section: the progress of a registered user
GetUserData ==
    \E user_id \in {r.id : r \in Range(users)} :
        LET d == get_user_data(progress, user_id, now) IN
        /\ progress' = d.progress
        /\ last' = Call("get_user_data", <<>>, <<>>, <<>>, <<>>, d.found, "", user_id)
        /\ UNCHANGED <<quadVars, authVars, mastery, achievements, attemptDays, now, dmVars, openConns,
                       voiceVars, verified>>

----------------------------------------------------------------------------
(* DatabaseManager.create_user *)

DmUserRow(id, username, email, password_hash, salt) ==
    [id |-> id, username |-> username, email |-> email,
     password_hash |-> password_hash, salt |-> salt, role |-> "student"]

DmProgressRow(user_id) ==
    [user_id |-> user_id, total_points |-> 0, current_level |-> 1,
     problems_attempted |-> 0, problems_solved |-> 0, streak_days |-> 0,
     last_active |-> -1, total_study_time |-> 0]

\* username TEXT UNIQUE NOT NULL, email TEXT UNIQUE NOT NULL
dm_users_unique(U, username, email) ==
    \A r \in Range(U) : r.username # username /\ r.email # email

DmRet(ok, U, P, open) == [ok |-> ok, users |-> U, progress |-> P, open |-> open]

\* fault names the statement of this call that raises, if any; the finally
\* clause closes the connection on every path
create_user(U, P, username, email, password_hash, salt, fault) ==
    IF fault = "insert" \/ ~dm_users_unique(U, username, email) THEN
        DmRet(FALSE, U, P, 0)
    ELSE
        LET user_id == lastrowid(U) IN
        IF fault = "commit" \/ \E r \in P : r.user_id = user_id THEN
            DmRet(FALSE, U, P, 0)
        ELSE
            DmRet(TRUE,
                  Append(U, DmUserRow(user_id, username, email, password_hash, salt)),
                  P \cup {DmProgressRow(user_id)}, 0)

CreateUser(faults) ==
    \E username \in GoodUsernames, email \in GoodEmails, fault \in faults :
        LET r == create_user(dmUsers, dmProgress, username, email,
                             _hash_password(Pw_one, "s1"), "s1", fault) IN
        /\ dmUsers' = r.users
        /\ dmProgress' = r.progress
        /\ openConns' = openConns + r.open
        /\ last' = Call("create_user", username, email, <<>>, <<>>, r.ok, "",
                        IF r.ok THEN Len(r.users) ELSE 0)
        /\ UNCHANGED <<quadVars, authVars, gameVars, now, dmMastery, dmSessions,
                       dmHistory, voiceVars, verified>>

----------------------------------------------------------------------------
(* Signing up: the two ways to create a user *)

NextDup ==
    \/ RegisterUser(SignupForms, {"none"})
    \/ CreateUser({"none"})

SpecDup == Init /\ [][NextDup]_vars

NextSignup ==
    \/ RegisterUser(RegisterInputs, {"none"})
    \/ GetUserData

SpecSignup == Init /\ [][NextSignup]_vars

----------------------------------------------------------------------------
(* Claims about signing up *)

\* C2: create_user and register_user with a username that is already in their
\* users table return a failure value, add no row to users or user_progress and
\* leave every row as it was.
C2_DuplicateUsernameRejected ==
    [][ /\ (last'.op = "create_user"
            /\ \E r \in Range(dmUsers) : r.username = last'.username) =>
                (~last'.ok /\ dmUsers' = dmUsers /\ dmProgress' = dmProgress)
        /\ (last'.op = "register_user"
            /\ \E r \in Range(users) : r.username = last'.username) =>
                (~last'.ok /\ users' = users /\ progress' = progress) ]_vars

\* C2, its case: create_user was refused for a username that is taken, with an
\* e-mail address that is not, while both tables hold a user.
C2_Witness ==
    /\ last.op = "create_user"
    /\ ~last.ok
    /\ \E r \in Range(dmUsers) : r.username = last.username
    /\ \A r \in Range(dmUsers) : r.email # last.email
    /\ users # <<>>

\* what the registration form demands, read off the claim
FormIsValid(U, username, email, password, confirm) ==
    /\ username # <<>>
    /\ email # <<>>
    /\ password # <<>>
    /\ password = confirm
    /\ _validate_email(email)
    /\ Len(password) >= 8
    /\ \E i \in DOMAIN password : password[i] \in Upper
    /\ \E i \in DOMAIN password : password[i] \in Lower
    /\ \E i \in DOMAIN password : password[i] \in Digit
    /\ Len(username) >= 3
    /\ \A r \in Range(U) : r.username # username /\ r.email # email

\* C6: register_user adds a users row only for a form that is filled in, whose
\* passwords agree, whose e-mail matches the pattern, whose password has 8
\* characters with an upper-case letter, a lower-case letter and a digit, whose
\* username has 3 characters, and whose username and e-mail are both new; for
\* every other form it returns (False, message) and the table is unchanged.
C6_RegisterValidates ==
    [][ last'.op = "register_user" =>
          LET valid == FormIsValid(users, last'.username, last'.email,
                                   last'.password, last'.confirm)
          IN /\ users' # users =>
                  /\ valid
                  /\ last'.ok
                  /\ Len(users') = Len(users) + 1
                  /\ SubSeq(users', 1, Len(users)) = users
                  /\ users'[Len(users')].username = last'.username
                  /\ users'[Len(users')].email = last'.email
             /\ ~valid =>
                  /\ ~last'.ok
                  /\ last'.msg # ""
                  /\ users' = users ]_vars

\* C6, its case: a form refused because its e-mail address is taken, with a
\* username that is new.
C6_Witness ==
    /\ last.op = "register_user"
    /\ ~last.ok
    /\ \E r \in Range(users) : r.email = last.email
    /\ \A r \in Range(users) : r.username # last.username

\* C7: when register_user returns success, user_progress holds a row for the new
\* user's id with total_points 0, current_level 1 and no attempt.
C7_ProgressRowOnSignup ==
    [][ (last'.op = "register_user" /\ last'.ok) =>
            \E r \in progress' :
                /\ r.user_id = user_id_str(last'.ret)
                /\ r.total_points = 0
                /\ r.current_level = 1
                /\ r.problems_attempted = 0 ]_vars

\* C7, its case: a registration has succeeded and the new user has no
\* user_progress row.
C7_SignedUpWithoutProgress ==
    /\ last.op = "register_user"
    /\ last.ok
    /\ ~HasProgress(progress, user_id_str(last.ret))

----------------------------------------------------------------------------
(* Practice attempts: proficiency, a REAL column, as an exact fraction *)

MaxAttempts == 51
MaxDmAttempts == 2

RECURSIVE Gcd(_, _)
Gcd(m, n) == IF n = 0 THEN m ELSE Gcd(n, m % n)

\* the fraction n/d with d > 0 and n >= 0, in lowest terms
Rat(n, d) == [num |-> n \div Gcd(n, d), den |-> d \div Gcd(n, d)]

RatAdd(x, y) == Rat(x.num * y.den + y.num * x.den, x.den * y.den)

RatMul(x, k) == Rat(x.num * k, x.den)

RatDiv(x, k) == Rat(x.num, x.den * k)

RatLeq(x, y) == x.num * y.den <= y.num * x.den

\* get_achievements(): the points of each achievement
achievement_points ==
    [first_problem |-> 10, quick_learner |-> 25, algebra_expert |-> 50,
     streak_master |-> 30, speed_demon |-> 40]

_award_achievement_again(P, A, key, achievement_id) ==
    [progress |-> {IF r.user_id = key
                   THEN [r EXCEPT !.total_points = @ + achievement_points[achievement_id]]
                   ELSE r : r \in P},
     achievements |-> A \cup {<<key, achievement_id>>}]

\* PRIMARY KEY (user_id, achievement_id): a second INSERT raises IntegrityError
\* before the points are added
_award_achievement(P, A, key, achievement_id) ==
    IF <<key, achievement_id>> \in A THEN
        [progress |-> P, achievements |-> A]
    ELSE
        [progress |-> {IF r.user_id = key
                       THEN [r EXCEPT !.total_points = @ + achievement_points[achievement_id]]
                       ELSE r : r \in P},
         achievements |-> A \cup {<<key, achievement_id>>}]

_check_achievements(P, A, key) ==
    LET first == IF \E r \in P : r.user_id = key /\ r.problems_solved = 1
                 THEN _award_achievement(P, A, key, "first_problem")
                 ELSE [progress |-> P, achievements |-> A]
    IN IF \E r \in first.progress : r.user_id = key /\ r.streak_days >= 7
       THEN _award_achievement(first.progress, first.achievements, key, "streak_master")
       ELSE first

\* time_taken=None, the default of update_user_progress
NoneTime == -1

\* GamificationEngine.update_user_progress.
\* difficulty * 10 * 0.1 is the float nearest to difficulty, taken here as
\* difficulty itself
update_user_progress(P, M, A, user_id, concept, difficulty, solved_correctly, time_taken, day) ==
    LET key == user_id_str(user_id)
        P0 == _init_user_progress(P, user_id, day, "none").progress
        base_points == difficulty * 10
        points_earned ==
            IF solved_correctly
            \* "time_taken and time_taken < 60": None and 0 are both falsy
            THEN base_points + (IF time_taken # NoneTime /\ time_taken # 0 /\ time_taken < 60
                                THEN 5 ELSE 0)
            ELSE base_points \div 10
        solved == IF solved_correctly THEN 1 ELSE 0
        P1 == {IF r.user_id = key
               THEN [r EXCEPT !.total_points = @ + points_earned,
                              !.problems_attempted = @ + 1,
                              !.problems_solved = @ + solved,
                              !.last_active = day]
               ELSE r : r \in P0}
        old == {r \in M : r.user_id = key /\ r.concept = concept}
        \* COALESCE((SELECT ... ), 0)
        cur == IF old = {}
               THEN [proficiency |-> Rat(0, 1), problems_attempted |-> 0, problems_solved |-> 0]
               ELSE CHOOSE r \in old : TRUE
        row == [user_id |-> key, concept |-> concept,
                proficiency |-> RatAdd(cur.proficiency, Rat(points_earned, 10)),
                problems_attempted |-> cur.problems_attempted + 1,
                problems_solved |-> cur.problems_solved + solved,
                last_practiced |-> day]
        ach == _check_achievements(P1, A, key)
    IN [progress |-> ach.progress,
        mastery |-> (M \ old) \cup {row},
        achievements |-> ach.achievements,
        user_data |-> get_user_data(ach.progress, user_id, day),
        points_earned |-> points_earned]

\* what app.py passes: lines 293-294 and 400-401
GameUsers == {1}
GameConcepts == {"Quadratic Equations"}
Difficulties == {2}
TimesTaken == {NoneTime}

Attempts(M) == {r.problems_attempted : r \in M} \cup {0}

\* one call with at most limit attempts recorded so far; last keeps the
\* arguments (user_id, difficulty, time_taken), solved_correctly, the level in
\* the user_data returned and points_earned
UpdateUserProgress(limit, difficulties, times) ==
    \E user_id \in GameUsers, concept \in GameConcepts, difficulty \in difficulties,
       solved_correctly \in BOOLEAN, time_taken \in times :
        LET r == update_user_progress(progress, mastery, achievements, user_id, concept,
                                      difficulty, solved_correctly, time_taken, now) IN
        /\ \A n \in Attempts(mastery) : n < limit
        /\ progress' = r.progress
        /\ mastery' = r.mastery
        /\ achievements' = r.achievements
        /\ attemptDays' = attemptDays \cup {<<user_id, now>>}
        /\ last' = Call("game_engine.update_user_progress",
                        <<user_id, difficulty, time_taken>>, <<>>, <<>>,
                        <<r.user_data.current_level>>, solved_correctly, "", r.points_earned)
        /\ UNCHANGED <<quadVars, authVars, now, dmVars, openConns, voiceVars, verified>>

\* DatabaseManager._update_concept_mastery
_update_concept_mastery(M, user_id, concept, is_correct) ==
    LET result == {r \in M : r.user_id = user_id /\ r.concept = concept} IN
    IF result # {} THEN
        LET cur == CHOOSE r \in result : TRUE
            new_attempted == cur.problems_attempted + 1
            new_solved == cur.problems_solved + (IF is_correct THEN 1 ELSE 0)
            new_proficiency ==
                RatDiv(RatAdd(RatMul(cur.proficiency, cur.problems_attempted),
                              Rat(IF is_correct THEN 100 ELSE 0, 1)),
                       new_attempted)
        IN (M \ result) \cup
           {[cur EXCEPT !.proficiency = new_proficiency,
                        !.problems_attempted = new_attempted,
                        !.problems_solved = new_solved]}
    ELSE
        M \cup {[user_id |-> user_id, concept |-> concept,
                 proficiency |-> Rat(IF is_correct THEN 100 ELSE 0, 1),
                 problems_attempted |-> 1,
                 problems_solved |-> IF is_correct THEN 1 ELSE 0]}

\* DatabaseManager._update_user_stats: last_active is set to today before the
\* streak code reads it back
_update_user_stats(P, user_id, is_correct, day) ==
    LET P1 == {IF r.user_id = user_id
               THEN [r EXCEPT !.problems_attempted = @ + 1,
                              !.problems_solved = @ + (IF is_correct THEN 1 ELSE 0),
                              !.last_active = day,
                              !.total_points = @ + (IF is_correct THEN 10 ELSE 1)]
               ELSE r : r \in P}
    IN {IF r.user_id = user_id /\ r.last_active >= 0
        THEN (IF day = r.last_active THEN r
              ELSE IF day - r.last_active = 1 THEN [r EXCEPT !.streak_days = @ + 1]
              ELSE [r EXCEPT !.streak_days = 1])
        ELSE r : r \in P1}

RECURSIVE dm_each_concept(_, _, _, _)
dm_each_concept(M, user_id, concepts, is_correct) ==
    IF concepts = <<>> THEN M
    ELSE dm_each_concept(_update_concept_mastery(M, user_id, Head(concepts), is_correct),
                         user_id, Tail(concepts), is_correct)

\* DatabaseManager.update_user_progress; a statement that raises leaves through
\* the except clause, and close() without commit rolls the writes back
dm_update_user_progress(H, M, P, user_id, problem_data, day, fault) ==
    IF fault # "none" THEN
        [history |-> H, mastery |-> M, progress |-> P, ret |-> FALSE]
    ELSE
        [history |-> Append(H, [user_id |-> user_id, is_correct |-> problem_data.is_correct]),
         mastery |-> dm_each_concept(M, user_id, problem_data.concepts_involved,
                                     problem_data.is_correct),
         progress |-> _update_user_stats(P, user_id, problem_data.is_correct, day),
         ret |-> TRUE]

DmConcepts == {<<"quadratic">>}

DmUpdateUserProgress ==
    \E user_id \in GameUsers, is_correct \in BOOLEAN, concepts \in DmConcepts :
        LET r == dm_update_user_progress(dmHistory, dmMastery, dmProgress, user_id,
                     [is_correct |-> is_correct, concepts_involved |-> concepts],
                     now, "none") IN
        /\ Len(dmHistory) < MaxDmAttempts
        /\ dmHistory' = r.history
        /\ dmMastery' = r.mastery
        /\ dmProgress' = r.progress
        /\ last' = Call("db.update_user_progress", <<>>, <<>>, <<>>, <<>>, r.ret, "", user_id)
        /\ UNCHANGED <<quadVars, authVars, gameVars, now, dmUsers, dmSessions, openConns,
                       voiceVars, verified>>

NextGame ==
    \/ UpdateUserProgress(MaxAttempts, Difficulties, TimesTaken)
    \/ DmUpdateUserProgress

\* one user of the DatabaseManager exists, as create_user leaves it
InitGame ==
    /\ qin = NoQuad
    /\ qout = None
    /\ cout = None
    /\ proof = NoProof
    /\ users = <<>>
    /\ progress = {}
    /\ mastery = {}
    /\ achievements = {}
    /\ attemptDays = {}
    /\ session = EmptySession
    /\ now = 0
    /\ dmUsers = <<DmUserRow(1, Txt_ali, Mail_a, _hash_password(Pw_one, "s1"), "s1")>>
    /\ dmProgress = {DmProgressRow(1)}
    /\ dmMastery = {}
    /\ dmSessions = <<>>
    /\ dmHistory = <<>>
    /\ openConns = 0
    /\ voice = NoVoice
    /\ listeners = 0
    /\ verified = 0
    /\ last = NoCall

SpecGame == InitGame /\ [][NextGame]_vars

\* C3: after any sequence of practice attempts through either engine, the
\* proficiency of every concept_mastery row lies between 0 and 100 inclusive.
C3_ProficiencyInRange ==
    \A r \in mastery \cup dmMastery :
        RatLeq(Rat(0, 1), r.proficiency) /\ RatLeq(r.proficiency, Rat(100, 1))

\* C3, its case: both engines have recorded attempts, right and wrong ones.
C3_Witness ==
    /\ \E r \in mastery : r.problems_attempted > r.problems_solved /\ r.problems_solved > 0
    /\ \E r \in dmMastery : r.problems_attempted > r.problems_solved /\ r.problems_solved > 0

----------------------------------------------------------------------------
(* DatabaseManager: study sessions and the progress report; connections *)

MaxSessions == 2

\* DatabaseManager.start_study_session: conn.close() is the last statement of
\* the try block, so a statement that raises leaves the connection open
start_study_session(S, user_id, session_type, fault) ==
    IF fault = "insert" \/ fault = "commit" THEN
        [sessions |-> S, ret |-> -1, open |-> 1]
    ELSE
        [sessions |-> Append(S, [id |-> lastrowid(S), user_id |-> user_id,
                                 session_type |-> session_type, end_time |-> -1]),
         ret |-> lastrowid(S), open |-> 0]

StartStudySession ==
    \E user_id \in GameUsers, fault \in {"none", "insert", "commit"} :
        LET r == start_study_session(dmSessions, user_id, "practice", fault) IN
        /\ Len(dmSessions) < MaxSessions
        /\ openConns + r.open <= MaxLeaks
        /\ dmSessions' = r.sessions
        /\ openConns' = openConns + r.open
        /\ last' = Call("start_study_session", <<>>, <<>>, <<>>, <<>>, r.ret > 0, fault, r.ret)
        /\ UNCHANGED <<quadVars, authVars, gameVars, now, dmUsers, dmProgress, dmMastery,
                       dmHistory, voiceVars, verified>>

\* DatabaseManager.get_user_progress_report: four reads, then conn.close(); a
\* read that raises goes to the except clause, which returns {} and closes nothing
get_user_progress_report(P, M, user_id, fault) ==
    IF fault = "read_sql" THEN
        [found |-> FALSE, concepts |-> 0, open |-> 1]
    ELSE
        [found |-> \E r \in P : r.user_id = user_id,
         concepts |-> Cardinality({r \in M : r.user_id = user_id}),
         open |-> 0]

GetUserProgressReport ==
    \E user_id \in GameUsers, fault \in {"none", "read_sql"} :
        LET r == get_user_progress_report(dmProgress, dmMastery, user_id, fault) IN
        /\ openConns + r.open <= MaxLeaks
        /\ openConns' = openConns + r.open
        /\ last' = Call("get_user_progress_report", <<>>, <<>>, <<>>, <<>>, r.found, fault,
                        r.concepts)
        /\ UNCHANGED <<quadVars, authVars, gameVars, now, dmVars, voiceVars, verified>>

ConnForms == {<<Txt_ali, Mail_a, Pw_one, Pw_one>>}

NextConn ==
    \/ RegisterUser(ConnForms, Faults)
    \/ CreateUser({"none", "insert", "commit"})
    \/ StartStudySession
    \/ GetUserProgressReport

SpecConn == Init /\ [][NextConn]_vars

\* C10: after any sequence of database operations, failing ones included, no
\* connection that an operation opened is still open.
C10_NoConnectionLeftOpen == openConns = 0

\* C10, its case: an operation has failed inside a query and returned.
C10_FailedAndLeftOpen ==
    /\ last.op \in {"start_study_session", "get_user_progress_report"}
    /\ ~last.ok
    /\ last.msg \in {"insert", "commit", "read_sql"}
    /\ openConns > 0

----------------------------------------------------------------------------
(* VoiceCommandSystem: the command table, process_command, execute_command *)

\* the keys of self.commands, character by character
Cmd ==
    [go_to_dashboard |-> <<"g", "o", " ", "t", "o", " ", "d", "a", "s", "h", "b", "o", "a", "r", "d">>,
     show_quadratic_solver |-> <<"s", "h", "o", "w", " ", "q", "u", "a", "d", "r", "a", "t", "i", "c", " ", "s", "o", "l", "v", "e", "r">>,
     open_polynomial_analyzer |-> <<"o", "p", "e", "n", " ", "p", "o", "l", "y", "n", "o", "m", "i", "a", "l", " ", "a", "n", "a", "l", "y", "z", "e", "r">>,
     show_identities |-> <<"s", "h", "o", "w", " ", "i", "d", "e", "n", "t", "i", "t", "i", "e", "s">>,
     practice_problems |-> <<"p", "r", "a", "c", "t", "i", "c", "e", " ", "p", "r", "o", "b", "l", "e", "m", "s">>,
     show_progress |-> <<"s", "h", "o", "w", " ", "p", "r", "o", "g", "r", "e", "s", "s">>,
     solve_quadratic |-> <<"s", "o", "l", "v", "e", " ", "q", "u", "a", "d", "r", "a", "t", "i", "c">>,
     expand_expression |-> <<"e", "x", "p", "a", "n", "d", " ", "e", "x", "p", "r", "e", "s", "s", "i", "o", "n">>,
     factor_expression |-> <<"f", "a", "c", "t", "o", "r", " ", "e", "x", "p", "r", "e", "s", "s", "i", "o", "n">>,
     calculate_derivative |-> <<"c", "a", "l", "c", "u", "l", "a", "t", "e", " ", "d", "e", "r", "i", "v", "a", "t", "i", "v", "e">>,
     calculate_integral |-> <<"c", "a", "l", "c", "u", "l", "a", "t", "e", " ", "i", "n", "t", "e", "g", "r", "a", "l">>,
     graph_function |-> <<"g", "r", "a", "p", "h", " ", "f", "u", "n", "c", "t", "i", "o", "n">>,
     stop_listening |-> <<"s", "t", "o", "p", " ", "l", "i", "s", "t", "e", "n", "i", "n", "g">>,
     start_listening |-> <<"s", "t", "a", "r", "t", " ", "l", "i", "s", "t", "e", "n", "i", "n", "g">>,
     help |-> <<"h", "e", "l", "p">>,
     clear_screen |-> <<"c", "l", "e", "a", "r", " ", "s", "c", "r", "e", "e", "n">>,
     what_can_I_say |-> <<"w", "h", "a", "t", " ", "c", "a", "n", " ", "I", " ", "s", "a", "y">>,
     explain_concept |-> <<"e", "x", "p", "l", "a", "i", "n", " ", "c", "o", "n", "c", "e", "p", "t">>,
     show_example |-> <<"s", "h", "o", "w", " ", "e", "x", "a", "m", "p", "l", "e">>,
     generate_problem |-> <<"g", "e", "n", "e", "r", "a", "t", "e", " ", "p", "r", "o", "b", "l", "e", "m">>,
     check_solution |-> <<"c", "h", "e", "c", "k", " ", "s", "o", "l", "u", "t", "i", "o", "n">>]

\* self.commands: (phrase, action) pairs
commands ==
    {<<Cmd.go_to_dashboard, "navigate_dashboard">>,
     <<Cmd.show_quadratic_solver, "navigate_quadratic">>,
     <<Cmd.open_polynomial_analyzer, "navigate_polynomial">>,
     <<Cmd.show_identities, "navigate_identities">>,
     <<Cmd.practice_problems, "navigate_practice">>,
     <<Cmd.show_progress, "navigate_progress">>,
     <<Cmd.solve_quadratic, "solve_quadratic">>,
     <<Cmd.expand_expression, "expand_expression">>,
     <<Cmd.factor_expression, "factor_expression">>,
     <<Cmd.calculate_derivative, "calculate_derivative">>,
     <<Cmd.calculate_integral, "calculate_integral">>,
     <<Cmd.graph_function, "graph_function">>,
     <<Cmd.stop_listening, "stop_listening">>,
     <<Cmd.start_listening, "start_listening">>,
     <<Cmd.help, "show_help">>,
     <<Cmd.clear_screen, "clear_screen">>,
     <<Cmd.what_can_I_say, "show_commands">>,
     <<Cmd.explain_concept, "explain_concept">>,
     <<Cmd.show_example, "show_example">>,
     <<Cmd.generate_problem, "generate_problem">>,
     <<Cmd.check_solution, "check_solution">>}

CommandKeys == {p[1] : p \in commands}

\* the keywords _parse_natural_language and its helpers look for
Kw ==
    [solve |-> <<"s", "o", "l", "v", "e">>,
     calculate |-> <<"c", "a", "l", "c", "u", "l", "a", "t", "e">>,
     find |-> <<"f", "i", "n", "d">>,
     quadratic |-> <<"q", "u", "a", "d", "r", "a", "t", "i", "c">>,
     equation |-> <<"e", "q", "u", "a", "t", "i", "o", "n">>,
     derivative |-> <<"d", "e", "r", "i", "v", "a", "t", "i", "v", "e">>,
     integral |-> <<"i", "n", "t", "e", "g", "r", "a", "l">>,
     expand |-> <<"e", "x", "p", "a", "n", "d">>,
     factor |-> <<"f", "a", "c", "t", "o", "r">>,
     graph |-> <<"g", "r", "a", "p", "h">>,
     plot |-> <<"p", "l", "o", "t">>,
     help |-> <<"h", "e", "l", "p">>,
     what_can |-> <<"w", "h", "a", "t", " ", "c", "a", "n">>,
     of |-> <<"o", "f">>]

\* typed texts that are not keys of the table
Txt_Help_padded == <<" ", "H", "e", "l", "p", " ">>
Txt_what_can_i_say == <<"w", "h", "a", "t", " ", "c", "a", "n", " ", "i", " ", "s", "a", "y">>
Txt_hello == <<"h", "e", "l", "l", "o">>
Txt_solve_equation == <<"s", "o", "l", "v", "e", " ", "e", "q", "u", "a", "t", "i", "o", "n", " ", "1", " ", "0", " ", "-", "1">>

StartTime == 10
MaxHistory == 1
command_cooldown == 2

\* time.time() when the model's clock shows t
time_time(t) == StartTime + t

UpperSeq == <<"A","B","C","D","E","F","G","H","I","J","K","L","M",
              "N","O","P","Q","R","S","T","U","V","W","X","Y","Z">>
LowerSeq == <<"a","b","c","d","e","f","g","h","i","j","k","l","m",
              "n","o","p","q","r","s","t","u","v","w","x","y","z">>
DigitSeq == <<"0","1","2","3","4","5","6","7","8","9">>

\* str.lower()
lower(text) ==
    [i \in DOMAIN text |->
        IF text[i] \in Upper
        THEN LowerSeq[CHOOSE k \in DOMAIN UpperSeq : UpperSeq[k] = text[i]]
        ELSE text[i]]

\* str.strip()
strip(text) ==
    LET inked == {i \in DOMAIN text : text[i] # " "} IN
    IF inked = {} THEN <<>>
    ELSE SubSeq(text, CHOOSE i \in inked : \A k \in inked : i <= k,
                      CHOOSE j \in inked : \A k \in inked : k <= j)

\* sub in text
Contains(text, sub) ==
    \E i \in 0..(Len(text) - Len(sub)) : SubSeq(text, i + 1, i + Len(sub)) = sub

DigitValue(ch) == (CHOOSE k \in DOMAIN DigitSeq : DigitSeq[k] = ch) - 1

\* the last position of the run of digits that starts at i
RECURSIVE DigitRunEnd(_, _)
DigitRunEnd(text, i) ==
    IF i + 1 <= Len(text) /\ text[i + 1] \in Digit THEN DigitRunEnd(text, i + 1) ELSE i

RECURSIVE DigitsValue(_, _, _)
DigitsValue(text, i, j) ==
    IF j < i THEN 0 ELSE 10 * DigitsValue(text, i, j - 1) + DigitValue(text[j])

\* re.findall(r'-?\d+\.?\d*', text) from position i on, as numbers; the typed
\* texts hold no '.'
RECURSIVE find_numbers(_, _)
find_numbers(text, i) ==
    IF i > Len(text) THEN <<>>
    ELSE IF text[i] \in Digit THEN
        <<DigitsValue(text, i, DigitRunEnd(text, i))>>
            \o find_numbers(text, DigitRunEnd(text, i) + 1)
    ELSE IF text[i] = "-" /\ i + 1 <= Len(text) /\ text[i + 1] \in Digit THEN
        <<0 - DigitsValue(text, i + 1, DigitRunEnd(text, i + 1))>>
            \o find_numbers(text, DigitRunEnd(text, i + 1) + 1)
    ELSE find_numbers(text, i + 1)

\* what process_command can return: a str, a dict or None
StrCommand(action) == [kind |-> "str", action |-> action, parameters |-> <<>>]
DictCommand(action, parameters) == [kind |-> "dict", action |-> action, parameters |-> parameters]
NoCommand == [kind |-> "None", action |-> "", parameters |-> <<>>]

\* each fallback pattern holds three groups of digits, so it matches only a
\* text in which findall has found three numbers already
_parse_quadratic_command(text) ==
    LET numbers == find_numbers(text, 1) IN
    IF Len(numbers) >= 3
    THEN DictCommand("solve_quadratic_voice", SubSeq(numbers, 1, 3))
    ELSE DictCommand("solve_quadratic", <<>>)

_parse_derivative_command(text) ==
    IF Contains(text, Kw.of)
    THEN DictCommand("calculate_derivative_voice", <<>>)
    ELSE DictCommand("calculate_derivative", <<>>)

_parse_natural_language(text) ==
    LET text_lower == lower(text) IN
    IF \E keyword \in {Kw.solve, Kw.calculate, Kw.find} : Contains(text_lower, keyword) THEN
        IF Contains(text_lower, Kw.quadratic) \/ Contains(text_lower, Kw.equation)
        THEN _parse_quadratic_command(text)
        ELSE IF Contains(text_lower, Kw.derivative) THEN _parse_derivative_command(text)
        ELSE IF Contains(text_lower, Kw.integral) THEN DictCommand("calculate_integral", <<>>)
        ELSE NoCommand
    ELSE IF Contains(text_lower, Kw.expand) THEN DictCommand("expand_expression", <<>>)
    ELSE IF Contains(text_lower, Kw.factor) THEN DictCommand("factor_expression", <<>>)
    ELSE IF \E keyword \in {Kw.graph, Kw.plot} : Contains(text_lower, keyword)
        THEN DictCommand("graph_function", <<>>)
    ELSE IF Contains(text_lower, Kw.help) \/ Contains(text_lower, Kw.what_can)
        THEN StrCommand("show_commands")
    ELSE NoCommand

process_command_moves(V, command_text, current_time) ==
    IF command_text = <<>> THEN
        [voice |-> V, ret |-> NoCommand]
    ELSE IF current_time - V.last_command_time < command_cooldown THEN
        [voice |-> [V EXCEPT !.last_command_time = current_time], ret |-> NoCommand]
    ELSE
        LET normalized_command == strip(lower(command_text)) IN
        [voice |-> [V EXCEPT !.last_command_time = current_time],
         ret |-> IF normalized_command \in CommandKeys
                 THEN StrCommand((CHOOSE p \in commands : p[1] = normalized_command)[2])
                 ELSE _parse_natural_language(command_text)]

process_command(V, command_text, current_time) ==
    IF command_text = <<>> THEN
        [voice |-> V, ret |-> NoCommand]
    ELSE IF current_time - V.last_command_time < command_cooldown THEN
        [voice |-> V, ret |-> NoCommand]
    ELSE
        LET normalized_command == strip(lower(command_text)) IN
        [voice |-> [V EXCEPT !.last_command_time = current_time],
         ret |-> IF normalized_command \in CommandKeys
                 THEN StrCommand((CHOOSE p \in commands : p[1] = normalized_command)[2])
                 ELSE _parse_natural_language(command_text)]

ExecRet(S, V, raised) == [session |-> S, voice |-> V, raised |-> raised]

\* -b / (2*a) on Python floats raises ZeroDivisionError, which the handler
\* catches; a numpy square root divided by 0.0 gives inf and raises nothing
_execute_quadratic_solve(S, parameters) ==
    LET a == parameters[1]
        b == parameters[2]
        c == parameters[3]
    IN IF a = 0 /\ b = 0 THEN S
       ELSE SessSet(SessSet(S, "voice_quadratic_result",
                            [equation |-> <<a, b, c>>, solution |-> solve_quadratic(a, b, c)]),
                    "current_section", "Quadratic Solver")

\* random.choice(problem_types) draws from this list
ProblemTypes ==
    {"quadratic equation", "polynomial expansion", "factoring problem", "derivative calculation"}

NavigationTarget ==
    [navigate_dashboard |-> "Dashboard", navigate_quadratic |-> "Quadratic Solver",
     navigate_polynomial |-> "Polynomial Analyzer", navigate_identities |-> "Identities",
     navigate_practice |-> "Practice", navigate_progress |-> "Progress",
     solve_quadratic |-> "Quadratic Solver", calculate_derivative |-> "Calculus",
     calculate_integral |-> "Calculus", expand_expression |-> "Identities",
     factor_expression |-> "Identities", graph_function |-> "Graphing"]

\* problem_type is what random.choice returns, derivative_ok whether
\* math_engine.calculate_derivative reports success
execute_command(S, V, command_data, problem_type, derivative_ok) ==
    LET action == command_data.action IN
    IF command_data.kind = "None" THEN ExecRet(S, V, FALSE)
    \* command_data.get('action'): a str has no attribute 'get'
    ELSE IF command_data.kind = "str" THEN ExecRet(S, V, TRUE)
    ELSE IF action = "solve_quadratic_voice" THEN
        ExecRet(_execute_quadratic_solve(S, command_data.parameters), V, FALSE)
    ELSE IF action = "calculate_derivative_voice" THEN
        ExecRet(IF derivative_ok THEN SessSet(S, "voice_derivative_result", TRUE) ELSE S, V, FALSE)
    ELSE IF action \in DOMAIN NavigationTarget THEN
        ExecRet(SessSet(S, "current_section", NavigationTarget[action]), V, FALSE)
    ELSE IF action = "stop_listening" THEN ExecRet(S, [V EXCEPT !.is_listening = FALSE], FALSE)
    ELSE IF action = "start_listening" THEN ExecRet(S, [V EXCEPT !.is_listening = TRUE], FALSE)
    ELSE IF action = "clear_screen" THEN ExecRet(EmptySession, V, FALSE)
    ELSE IF action = "generate_problem" THEN
        ExecRet(SessSet(S, "voice_generated_problem", problem_type), V, FALSE)
    \* show_help, show_commands, explain_concept, show_example, check_solution and
    \* an unknown action only speak or display
    ELSE ExecRet(S, V, FALSE)

MaxListeners == 2
PanelListeners == 1

\* L counts the _listen_loop threads alive; a call that passes the is_listening
\* test starts one more
start_voice_listener(V, L) ==
    IF V.is_listening THEN [voice |-> V, listeners |-> L]
    ELSE [voice |-> [V EXCEPT !.is_listening = TRUE], listeners |-> L + 1]

stop_voice_listener(V) == [V EXCEPT !.is_listening = FALSE]

\* render_voice_control_panel, lines 532-536: the object lives in the session
panel_voice_system(S, V) ==
    IF "voice_system" \in DOMAIN S THEN [session |-> S, voice |-> V]
    ELSE [session |-> SessSet(S, "voice_system", TRUE), voice |-> NoVoice]

\* render_voice_control_panel, lines 575-576
panel_history(S) ==
    IF "voice_command_history" \in DOMAIN S THEN S
    ELSE SessSet(S, "voice_command_history", <<>>)

VoiceTexts == CommandKeys \cup {Txt_Help_padded, Txt_what_can_i_say, Txt_hello, Txt_solve_equation}

QuickActions == {"solve_quadratic", "navigate_progress", "generate_problem", "clear_screen"}

\* "Execute Typed Command" with a text in the box; random.choice and
\* math_engine.calculate_derivative are drawn only where execute_command calls them
ManualCommand ==
    \E manual_command \in VoiceTexts :
        LET p0 == panel_voice_system(session, voice)
            S1 == panel_history(p0.session)
            p == process_command(p0.voice, manual_command, time_time(now))
        IN \E problem_type \in (IF p.ret.action = "generate_problem"
                                THEN ProblemTypes ELSE {"quadratic equation"}),
              derivative_ok \in (IF p.ret.action = "calculate_derivative_voice"
                                 THEN BOOLEAN ELSE {FALSE}) :
            LET e == execute_command(S1, p.voice, p.ret, problem_type, derivative_ok)
                done == p.ret.kind # "None" /\ ~e.raised
            IN /\ done => Len(S1["voice_command_history"]) < MaxHistory
               /\ voice' = e.voice
               /\ session' = IF done
                             THEN SessSet(e.session, "voice_command_history",
                                          Append(S1["voice_command_history"], manual_command))
                             ELSE e.session
               /\ last' = Call("manual_command", manual_command, <<>>, <<>>, <<>>, done,
                               IF e.raised THEN "AttributeError"
                               ELSE IF p.ret.kind = "None" THEN "Command not recognized"
                               ELSE p.ret.action, 0)
               /\ UNCHANGED <<quadVars, users, gameVars, now, dmVars, openConns, listeners, verified>>

\* one of the four quick command buttons
QuickCommand ==
    \E action \in QuickActions :
        \E problem_type \in (IF action = "generate_problem"
                             THEN ProblemTypes ELSE {"quadratic equation"}) :
            LET p0 == panel_voice_system(session, voice)
                e == execute_command(p0.session, p0.voice, DictCommand(action, <<>>),
                                     problem_type, FALSE)
            IN /\ voice' = e.voice
               /\ session' = panel_history(e.session)
               /\ last' = Call("quick_command", <<>>, <<>>, <<>>, <<>>, ~e.raised, action, 0)
               /\ UNCHANGED <<quadVars, users, gameVars, now, dmVars, openConns, listeners, verified>>

\* limit caps the number of listener threads
StartListening(limit) ==
    LET p0 == panel_voice_system(session, voice)
        r == start_voice_listener(p0.voice, listeners)
    IN /\ r.listeners <= limit
       /\ voice' = r.voice
       /\ listeners' = r.listeners
       /\ session' = panel_history(p0.session)
       /\ last' = Call("start_voice_listener", <<>>, <<>>, <<>>, <<>>, TRUE, "", 0)
       /\ UNCHANGED <<quadVars, users, gameVars, now, dmVars, openConns, verified>>

StopListening ==
    LET p0 == panel_voice_system(session, voice) IN
    /\ voice' = stop_voice_listener(p0.voice)
    /\ session' = panel_history(p0.session)
    /\ last' = Call("stop_voice_listener", <<>>, <<>>, <<>>, <<>>, TRUE, "", 0)
    /\ UNCHANGED <<quadVars, users, gameVars, now, dmVars, openConns, listeners, verified>>

NextVoice ==
    \/ ManualCommand
    \/ QuickCommand
    \/ StartListening(PanelListeners)
    \/ StopListening
    \/ Tick

SpecVoice == Init /\ [][NextVoice]_vars


\* the section each navigation phrase names
NavigationPhrases ==
    {<<Cmd.go_to_dashboard, "Dashboard">>, <<Cmd.show_quadratic_solver, "Quadratic Solver">>,
     <<Cmd.open_polynomial_analyzer, "Polynomial Analyzer">>,
     <<Cmd.show_identities, "Identities">>, <<Cmd.practice_problems, "Practice">>,
     <<Cmd.show_progress, "Progress">>}

\* C9: a phrase of the command table that is typed when the cooldown has passed
\* goes through process_command and execute_command without raising; a
\* navigation phrase leaves current_section at its target and 'stop listening'
\* leaves is_listening False.
C9_TablePhrasesPerform ==
    [][ ( /\ last'.op = "manual_command"
          /\ last'.username \in CommandKeys
          /\ time_time(now) - panel_voice_system(session, voice).voice.last_command_time
                >= command_cooldown ) =>
        ( /\ last'.msg # "AttributeError"
          /\ \A p \in NavigationPhrases :
                last'.username = p[1] =>
                    /\ "current_section" \in DOMAIN session'
                    /\ session'["current_section"] = p[2]
          /\ last'.username = Cmd.stop_listening => ~voice'.is_listening ) ]_vars

\* C9, its case: 'stop listening' was typed while the listener was on, the call
\* raised and the listener is still on.
C9_PhraseRaised ==
    /\ last.op = "manual_command"
    /\ last.username = Cmd.stop_listening
    /\ last.msg = "AttributeError"
    /\ voice.is_listening


----------------------------------------------------------------------------
(* Practice over several days; points, achievements and levels *)

MaxDay == 6
MaxStreakAttempts == 8
MaxPointsAttempts == 3

\* midnight passes
NextDay ==
    /\ now < MaxDay
    /\ now' = now + 1
    /\ UNCHANGED <<quadVars, authVars, gameVars, dmVars, openConns, voiceVars, verified, last>>

NextStreak ==
    \/ UpdateUserProgress(MaxStreakAttempts, Difficulties, TimesTaken)
    \/ NextDay

SpecStreak == InitGame /\ [][NextStreak]_vars

\* C11: once update_user_progress has recorded attempts of a user on seven
\* consecutive days, streak_master is among the user's achievements and
\* total_points holds its 30 points on top of the points earned.
C11_StreakMasterAwarded ==
    \A user_id \in GameUsers :
        (\E d \in 0..MaxDay : \A k \in 0..6 : <<user_id, d + k>> \in attemptDays) =>
            /\ <<user_id_str(user_id), "streak_master">> \in achievements
            /\ \A r \in progress :
                  r.user_id = user_id_str(user_id) =>
                      r.total_points >= 30 + 2 * r.problems_attempted

\* C11, its case: attempts on seven consecutive days are on record, streak_days
\* is still 0 and streak_master has not been awarded.
C11_SevenDaysNoAward ==
    \E user_id \in GameUsers :
        /\ \A k \in 0..6 : <<user_id, k>> \in attemptDays
        /\ \E r \in progress : r.user_id = user_id_str(user_id) /\ r.streak_days = 0
        /\ <<user_id_str(user_id), "streak_master">> \notin achievements


NextPoints ==
    \/ UpdateUserProgress(MaxPointsAttempts, {1, 3}, {NoneTime, 0, 30, 60})
    \/ GetUserData

\* a user is registered, as register_user leaves it
InitPoints ==
    /\ qin = NoQuad
    /\ qout = None
    /\ cout = None
    /\ proof = NoProof
    /\ users = <<UserRow(1, Txt_ali, Mail_a, _hash_password(Pw_one, "s1"), "s1")>>
    /\ progress = {}
    /\ mastery = {}
    /\ achievements = {}
    /\ attemptDays = {}
    /\ session = EmptySession
    /\ now = 0
    /\ dmUsers = <<>>
    /\ dmProgress = {}
    /\ dmMastery = {}
    /\ dmSessions = <<>>
    /\ dmHistory = <<>>
    /\ openConns = 0
    /\ voice = NoVoice
    /\ listeners = 0
    /\ verified = 0
    /\ last = NoCall

SpecPoints == InitPoints /\ [][NextPoints]_vars

\* the value of a column of the user's user_progress row, 0 when there is no row yet
ProgressField(P, key, field) ==
    IF \E r \in P : r.user_id = key THEN (CHOOSE r \in P : r.user_id = key)[field] ELSE 0

RECURSIVE SumAchievementPoints(_)
SumAchievementPoints(A) ==
    IF A = {} THEN 0
    ELSE LET x == CHOOSE y \in A : TRUE
         IN achievement_points[x[2]] + SumAchievementPoints(A \ {x})

\* C12: update_user_progress returns 10 * difficulty when solved, plus 5 when
\* time_taken is given and below 60, and difficulty when not solved; it adds 1
\* to problems_attempted, 1 to problems_solved iff solved, and to total_points
\* exactly the points returned plus the points of the achievements the call awarded.
C12_PointsAndCounters ==
    [][ last'.op = "game_engine.update_user_progress" =>
          LET key == user_id_str(last'.username[1])
              difficulty == last'.username[2]
              time_taken == last'.username[3]
              solved == last'.ok
              points_earned == last'.ret
              awarded == {x \in achievements' \ achievements : x[1] = key}
          IN /\ points_earned =
                    IF solved
                    THEN 10 * difficulty
                         + (IF time_taken # NoneTime /\ time_taken < 60 THEN 5 ELSE 0)
                    ELSE difficulty
             /\ ProgressField(progress', key, "problems_attempted")
                    = ProgressField(progress, key, "problems_attempted") + 1
             /\ ProgressField(progress', key, "problems_solved")
                    = ProgressField(progress, key, "problems_solved")
                      + (IF solved THEN 1 ELSE 0)
             /\ ProgressField(progress', key, "total_points")
                    = ProgressField(progress, key, "total_points") + points_earned
                      + SumAchievementPoints(awarded) ]_vars

\* C12, its case: a problem solved with time_taken = 0 earned no speed bonus.
C12_ZeroTimeNoBonus ==
    /\ last.op = "game_engine.update_user_progress"
    /\ last.ok
    /\ last.username[3] = 0
    /\ last.ret = 10 * last.username[2]

RECURSIVE SumProficiency(_)
SumProficiency(M) ==
    IF M = {} THEN Rat(0, 1)
    ELSE LET x == CHOOSE y \in M : TRUE
         IN RatAdd(x.proficiency, SumProficiency(M \ {x}))

\* C14: the points of an achievement are added to total_points once: a user's
\* total_points is the sum of the points earned by the attempts (ten times the
\* proficiency gathered over the concepts) plus the points of each achievement
\* held, counted once, however often the award condition was met again.
C14_AwardedOnce ==
    \A r \in progress :
        Rat(r.total_points, 1) =
            RatAdd(RatMul(SumProficiency({m \in mastery : m.user_id = r.user_id}), 10),
                   Rat(SumAchievementPoints({x \in achievements : x[1] = r.user_id}), 1))

\* C14, its case: first_problem is held and at least two attempts were recorded
\* after the one that solved the first problem, with problems_solved still 1.
C14_Witness ==
    \E r \in progress :
        /\ <<r.user_id, "first_problem">> \in achievements
        /\ r.problems_solved = 1
        /\ r.problems_attempted >= 4
        /\ last.op = "game_engine.update_user_progress"
        /\ ~last.ok

\* points_required of levels 1..5, as the claim lists them
RequiredPoints == <<0, 100, 300, 600, 1000>>

HighestLevel(total_points) ==
    CHOOSE l \in 1..5 :
        /\ RequiredPoints[l] <= total_points
        /\ \A k \in 1..5 : RequiredPoints[k] <= total_points => k <= l

\* C15: the current_level in the user data is the highest level whose
\* points_required is at most total_points, lies in 1..5 and is never below the
\* level the user's points gave before the call.
C15_LevelFollowsPoints ==
    [][ last'.op = "game_engine.update_user_progress" =>
          LET key == user_id_str(last'.username[1])
              level == last'.confirm[1]
          IN /\ level \in 1..5
             /\ level = HighestLevel(ProgressField(progress', key, "total_points"))
             /\ level >= HighestLevel(ProgressField(progress, key, "total_points")) ]_vars

\* C15, its case: the user data returned by a call reports level 5.
C15_Witness ==
    /\ last.op = "game_engine.update_user_progress"
    /\ last.confirm = <<5>>
    /\ \E r \in progress : r.total_points >= 1000

NextDmStreak ==
    \/ DmUpdateUserProgress
    \/ NextDay

SpecDmStreak == InitGame /\ [][NextDmStreak]_vars

\* C16: _update_user_stats on the day of the previous last_active leaves
\* streak_days as it is, on the day after it adds 1, and after a longer gap
\* sets streak_days to 1.
C16_StreakKept ==
    [][ last'.op = "db.update_user_progress" =>
          \A r \in dmProgress : \A q \in dmProgress' :
              (r.user_id = last'.ret /\ q.user_id = r.user_id /\ r.last_active >= 0) =>
                  /\ now = r.last_active => q.streak_days = r.streak_days
                  /\ now = r.last_active + 1 => q.streak_days = r.streak_days + 1
                  /\ now > r.last_active + 1 => q.streak_days = 1 ]_vars

\* C16, its case: an attempt on the day after the previous one, and streak_days
\* is still 0.
C16_NextDayNoStreak ==
    /\ last.op = "db.update_user_progress"
    /\ Len(dmHistory) = 2
    /\ now > 0
    /\ \E r \in dmProgress : r.last_active = now /\ r.streak_days = 0


----------------------------------------------------------------------------
(* AlgebraVisualizerApp.render_identity_prover *)

\* the sliders "Value of a" and "Value of b" run from 1 to SliderMax
SliderMax == 10

\* the six entries of the selectbox, by position
Identities == 1..6


identity_sides_swapped(identity, a_val, b_val) ==
    LET Pow(x, n) == IF n = 2 THEN x * x ELSE x * x * x IN
    CASE identity = 1 -> <<Pow(a_val + b_val, 2),
                           Pow(a_val, 2) + 2 * a_val * b_val + Pow(b_val, 2)>>
      [] identity = 2 -> <<Pow(a_val - b_val, 2),
                           Pow(a_val, 2) - 2 * a_val * b_val + Pow(b_val, 2)>>
      [] identity = 3 -> <<Pow(a_val, 2) - Pow(b_val, 2), (a_val - b_val) * (a_val + b_val)>>
      [] identity = 4 -> <<Pow(a_val + b_val, 3),
                           Pow(a_val, 3) + 3 * Pow(a_val, 2) * b_val
                               + 3 * a_val * Pow(b_val, 2) + Pow(b_val, 3)>>
      [] identity = 5 -> <<Pow(a_val, 3) + Pow(b_val, 3),
                           (a_val + b_val) * (Pow(a_val, 2) + a_val * b_val + Pow(b_val, 2))>>
      [] identity = 6 -> <<Pow(a_val, 3) - Pow(b_val, 3),
                           (a_val - b_val) * (Pow(a_val, 2) + a_val * b_val + Pow(b_val, 2))>>

\* (left_side, right_side) for the selected identity, on Python integers
identity_sides(identity, a_val, b_val) ==
    LET Pow(x, n) == IF n = 2 THEN x * x ELSE x * x * x IN
    CASE identity = 1 -> <<Pow(a_val + b_val, 2),
                           Pow(a_val, 2) + 2 * a_val * b_val + Pow(b_val, 2)>>
      [] identity = 2 -> <<Pow(a_val - b_val, 2),
                           Pow(a_val, 2) - 2 * a_val * b_val + Pow(b_val, 2)>>
      [] identity = 3 -> <<Pow(a_val, 2) - Pow(b_val, 2), (a_val - b_val) * (a_val + b_val)>>
      [] identity = 4 -> <<Pow(a_val + b_val, 3),
                           Pow(a_val, 3) + 3 * Pow(a_val, 2) * b_val
                               + 3 * a_val * Pow(b_val, 2) + Pow(b_val, 3)>>
      [] identity = 5 -> <<Pow(a_val, 3) + Pow(b_val, 3),
                           (a_val + b_val) * (Pow(a_val, 2) - a_val * b_val + Pow(b_val, 2))>>
      [] identity = 6 -> <<Pow(a_val, 3) - Pow(b_val, 3),
                           (a_val - b_val) * (Pow(a_val, 2) + a_val * b_val + Pow(b_val, 2))>>

\* the "Prove Identity" button; on integers abs(left_side - right_side) < 1e-10
\* says that the difference is 0
ProveIdentity ==
    LET abs(x) == IF x < 0 THEN 0 - x ELSE x
        sides == identity_sides(proof.identity, proof.a_val, proof.b_val)
        is_identity == abs(sides[1] - sides[2]) < 1
    IN /\ proof.verdict = "none"
       /\ proof' = [proof EXCEPT !.left_side = sides[1], !.right_side = sides[2],
                                 !.verdict = IF is_identity THEN "Identity verified!"
                                             ELSE "Not an identity"]
       /\ UNCHANGED <<qin, qout, cout, authVars, gameVars, now, dmVars, openConns, voiceVars,
                      verified, last>>


InitIdentity ==
    /\ qin = NoQuad
    /\ qout = None
    /\ cout = None
    /\ proof \in {[NoProof EXCEPT !.identity = i, !.a_val = a, !.b_val = b] :
                    i \in Identities, a \in 1..SliderMax, b \in 1..SliderMax}
    /\ users = <<>>
    /\ progress = {}
    /\ mastery = {}
    /\ achievements = {}
    /\ attemptDays = {}
    /\ session = EmptySession
    /\ now = 0
    /\ dmUsers = <<>>
    /\ dmProgress = {}
    /\ dmMastery = {}
    /\ dmSessions = <<>>
    /\ dmHistory = <<>>
    /\ openConns = 0
    /\ voice = NoVoice
    /\ listeners = 0
    /\ verified = 0
    /\ last = NoCall

SpecIdentity == InitIdentity /\ [][ProveIdentity]_vars

\* C13: for each of the six identities and all a, b in 1..10 the two sides the
\* Identity Prover computes are equal, and the verdict is "verified" exactly
\* when their difference is zero: every run reports the identity as verified.
C13_IdentitiesVerified ==
    proof.verdict # "none" =>
        /\ proof.left_side = proof.right_side
        /\ (proof.verdict = "Identity verified!") <=> (proof.left_side - proof.right_side = 0)
        /\ proof.verdict = "Identity verified!"

\* C13, its case: the sum of cubes has been verified for a = 10, b = 9.
C13_Witness ==
    /\ proof.identity = 5
    /\ proof.a_val = 10
    /\ proof.b_val = 9
    /\ proof.left_side = 1729
    /\ proof.verdict = "Identity verified!"


----------------------------------------------------------------------------
(* The listener thread *)

Heard == [plot_it |-> <<"p", "l", "o", "t", " ", "i", "t">>,
          expand_it |-> <<"e", "x", "p", "a", "n", "d", " ", "i", "t">>]

\* what listen() hands to the loop: recognised text in lower case
HeardTexts == {Cmd.go_to_dashboard, Heard.plot_it, Heard.expand_it, Txt_hello}

\* one pass of _listen_loop that hears a text: the loop has found is_listening
\* true; a command that process_command accepts is stored for the main thread
\* (st has no attribute 'callback')
ListenerHears ==
    \E command_text \in HeardTexts :
        LET p == process_command(voice, command_text, time_time(now)) IN
        /\ listeners > 0
        /\ voice.is_listening
        /\ voice' = p.voice
        /\ session' = IF p.ret.kind # "None"
                      THEN SessSet(session, "pending_voice_command", p.ret)
                      ELSE session
        /\ last' = Call("_listen_loop", command_text, <<>>, <<>>, <<>>, p.ret.kind # "None",
                        p.ret.action, 0)
        /\ UNCHANGED <<quadVars, users, gameVars, now, dmVars, openConns, listeners, verified>>

\* a loop finds is_listening false at the top of the while and returns
ListenerExit ==
    /\ listeners > 0
    /\ ~voice.is_listening
    /\ listeners' = listeners - 1
    /\ last' = Call("_listen_loop", <<>>, <<>>, <<>>, <<>>, FALSE, "return", 0)
    /\ UNCHANGED <<quadVars, authVars, gameVars, now, dmVars, openConns, voice, verified>>

NextListener ==
    \/ StartListening(MaxListeners)
    \/ StopListening
    \/ ListenerHears
    \/ ListenerExit
    \/ Tick

SpecListener == Init /\ [][NextListener]_vars

\* C17: a command heard less than command_cooldown seconds after the last
\* command that passed the gate is answered with None, is not stored, and leaves
\* last_command_time where it was; one heard later passes the gate and moves
\* last_command_time to its own time, so two commands that pass are at least
\* command_cooldown seconds apart.
C17_CooldownEnforced ==
    [][ ListenerHears =>
          LET elapsed == time_time(now) - voice.last_command_time IN
          /\ elapsed < 2 =>
                /\ ~last'.ok
                /\ session' = session
                /\ voice'.last_command_time = voice.last_command_time
          /\ elapsed >= 2 =>
                /\ voice'.last_command_time = time_time(now)
                /\ last'.username \in CommandKeys => last'.ok
          /\ voice'.last_command_time # voice.last_command_time =>
                voice'.last_command_time - voice.last_command_time >= 2 ]_vars

\* C17, its case: a phrase of the table was heard one second after a command
\* that passed, and was turned away.
C17_Witness ==
    /\ last.op = "_listen_loop"
    /\ last.username \in CommandKeys
    /\ ~last.ok
    /\ voice.last_command_time > 0
    /\ time_time(now) - voice.last_command_time = 1

\* C18: under every interleaving of start_voice_listener, stop_voice_listener
\* and the steps of the listener threads, at most one listener loop is running.
C18_OneListenerLoop == listeners <= 1

\* C18, its case: a start after a stop, and the earlier loop runs beside the new one.
C18_TwoLoops ==
    /\ last.op = "start_voice_listener"
    /\ voice.is_listening
    /\ listeners = 2

\* C19: a command stored in pending_voice_command stays there until the main
\* thread has executed it: when the stored command is replaced or removed, its
\* action has been performed (for a navigation command, current_section is its
\* target).
C19_PendingExecutedBeforeReplaced ==
    [][ ( /\ "pending_voice_command" \in DOMAIN session
          /\ ~ ( /\ "pending_voice_command" \in DOMAIN session'
                 /\ session'["pending_voice_command"] = session["pending_voice_command"] ) ) =>
        LET command_data == session["pending_voice_command"] IN
        /\ command_data.kind = "dict"
        /\ command_data.action \in DOMAIN NavigationTarget =>
              /\ "current_section" \in DOMAIN session'
              /\ session'["current_section"] = NavigationTarget[command_data.action] ]_vars

\* C19, its case: a second recognised command has taken the place of a stored
\* one, and the section the first one names was never opened.
C19_PendingOverwritten ==
    /\ last.op = "_listen_loop"
    /\ last.username = Heard.expand_it
    /\ "pending_voice_command" \in DOMAIN session
    /\ session["pending_voice_command"].action = "expand_expression"
    /\ "current_section" \notin DOMAIN session
    /\ time_time(now) >= StartTime + 2

====
